---- MODULE Spec2Model ----
(***************************************************************************)
(* Model of the cfdns client (cfdns.go): a Client holding a base URL and   *)
(* two credentials, and five operations that each build one HTTP request,  *)
(* hand it to http.DefaultClient.Do and turn the response into a result.   *)
(*                                                                         *)
(* Strings that the code concatenates (URLs) are sequences of their parts. *)
(* A JSON object is the sequence of its members <<key, kind, text>>, kind  *)
(* being the JSON type of the value and text its JSON text.                *)
(***************************************************************************)
EXTENDS Integers, Sequences, FiniteSets, TLC

VARIABLES env, clients, newArgs, pc, call, req, resp, ret, httpCalls, bodyOpen

vars == <<env, clients, newArgs, pc, call, req, resp, ret, httpCalls, bodyOpen>>

\* Longest "result" array a list response carries.
MaxResult == 2

defaultAPIBase == "https://api.cloudflare.com/client/v4"

Callers == {"c1", "c2"}
ClientIds == {"k1", "k2"}
Credentials == {[authEmail |-> "test@example.com", authKey |-> "dc771129"],
                [authEmail |-> "other@example.com", authKey |-> "0badc0de"]}

ErrNil == "<nil>"
ErrMarshal == "json: unsupported type"
ErrURL == "invalid URL escape"
ErrTransport == "dial tcp: connection refused"
ErrDecode == "json: cannot unmarshal"

SeqsUpTo(S, n) == UNION {[1..m -> S] : m \in 0..n}

----------------------------------------------------------------------------
(* Go values and their JSON text *)

\* time.Time values: T0 is the zero time.Time.
TimeZero == "T0"
TimeValues == {"T0", "T1"}

FormatTime(t) ==
    IF t = "T0" THEN "0001-01-01T00:00:00Z" ELSE "2014-01-01T05:20:00Z"

TimeTexts == {FormatTime(t) : t \in TimeValues}

ParseTime(text) == CHOOSE t \in TimeValues : FormatTime(t) = text

NumValues == {0, 1, 120}

NumText(n) == CASE n = 0 -> "0" [] n = 1 -> "1" [] OTHER -> "120"

NumTexts == {NumText(n) : n \in NumValues}

TextNum(text) == CHOOSE n \in NumValues : NumText(n) = text

BoolText(b) == IF b THEN "true" ELSE "false"

TextBool(text) == text = "true"

\* []string values of the Zone name server fields.
ListText(l) ==
    CASE l = <<>> -> "[]"
      [] l = <<"ns1.example.com">> -> "[\"ns1.example.com\"]"
      [] OTHER -> "[\"ns1.example.com\",\"ns2.example.com\"]"

ListValues == {<<>>, <<"ns1.example.com">>, <<"ns1.example.com", "ns2.example.com">>}

ListTexts == {ListText(l) : l \in ListValues}

TextList(text) == CHOOSE l \in ListValues : ListText(l) = text

\* Values of the interface{} field Data: nil, a decoded JSON object, and a Go
\* value encoding/json cannot marshal (a channel).
DataNil == "nil"
DataMap == "map[priority:10]"
DataChan == "chan"

DataText(d) == "{\"priority\":10}"

TextData(text) == DataMap

\* Members of a JSON object.
Has(obj, key) == \E i \in 1..Len(obj) : obj[i][1] = key

Member(obj, key) == obj[CHOOSE i \in 1..Len(obj) : obj[i][1] = key]

Text(obj, key) == Member(obj, key)[3]

Kind(obj, key) == Member(obj, key)[2]

----------------------------------------------------------------------------
(* DNSRecord and json.Marshal of it *)

DNSRecord(name, rectype, content) ==
    [Name |-> name, Type |-> rectype, Content |-> content, ID |-> "", TTL |-> 0,
     Proxiable |-> FALSE, Proxied |-> FALSE, Locked |-> FALSE, ZoneID |-> "",
     ZoneName |-> "", Created |-> TimeZero, Modified |-> TimeZero, Data |-> DataNil]

\* encoding/json omits an omitempty field when it is false, 0, nil or of
\* length zero; a struct value such as time.Time is never omitted.
MarshalDNSRecord(r) ==
    <<<<"name", "str", r.Name>>, <<"type", "str", r.Type>>, <<"content", "str", r.Content>>>>
    \o (IF r.ID = "" THEN <<>> ELSE <<<<"id", "str", r.ID>>>>)
    \o (IF r.TTL = 0 THEN <<>> ELSE <<<<"ttl", "num", NumText(r.TTL)>>>>)
    \o <<<<"proxiable", "bool", BoolText(r.Proxiable)>>,
         <<"proxied", "bool", BoolText(r.Proxied)>>,
         <<"locked", "bool", BoolText(r.Locked)>>>>
    \o (IF r.ZoneID = "" THEN <<>> ELSE <<<<"zone_id", "str", r.ZoneID>>>>)
    \o (IF r.ZoneName = "" THEN <<>> ELSE <<<<"zone_name", "str", r.ZoneName>>>>)
    \o <<<<"created_on", "str", FormatTime(r.Created)>>,
         <<"modified_on", "str", FormatTime(r.Modified)>>>>
    \o (IF r.Data = DataNil THEN <<>> ELSE <<<<"data", "obj", DataText(r.Data)>>>>)

NoBody == [nil |-> TRUE, json |-> <<>>]

\* jsonReader: json.Marshal fails on a value it does not support.
jsonReader(r) ==
    IF r.Data = DataChan
    THEN [body |-> NoBody, err |-> ErrMarshal]
    ELSE [body |-> [nil |-> FALSE, json |-> MarshalDNSRecord(r)], err |-> ErrNil]

----------------------------------------------------------------------------
(* Decoding of list responses *)

StrOK(obj, key) == Has(obj, key) => Kind(obj, key) = "str"

NumOK(obj, key) == Has(obj, key) => Kind(obj, key) = "num" /\ Text(obj, key) \in NumTexts

BoolOK(obj, key) == Has(obj, key) => Kind(obj, key) = "bool"

TimeOK(obj, key) == Has(obj, key) => Kind(obj, key) = "str" /\ Text(obj, key) \in TimeTexts

ListOK(obj, key) == Has(obj, key) => Kind(obj, key) = "arr" /\ Text(obj, key) \in ListTexts

Str(obj, key) == IF Has(obj, key) THEN Text(obj, key) ELSE ""

Num(obj, key) == IF Has(obj, key) THEN TextNum(Text(obj, key)) ELSE 0

Bool(obj, key) == IF Has(obj, key) THEN TextBool(Text(obj, key)) ELSE FALSE

Time(obj, key) == IF Has(obj, key) THEN ParseTime(Text(obj, key)) ELSE TimeZero

List(obj, key) == IF Has(obj, key) THEN TextList(Text(obj, key)) ELSE <<>>

DNSRecordShape(obj) ==
    /\ StrOK(obj, "name") /\ StrOK(obj, "type") /\ StrOK(obj, "content")
    /\ StrOK(obj, "id") /\ NumOK(obj, "ttl")
    /\ BoolOK(obj, "proxiable") /\ BoolOK(obj, "proxied") /\ BoolOK(obj, "locked")
    /\ StrOK(obj, "zone_id") /\ StrOK(obj, "zone_name")
    /\ TimeOK(obj, "created_on") /\ TimeOK(obj, "modified_on")

DecodeDNSRecord(obj) ==
    [Name |-> Str(obj, "name"), Type |-> Str(obj, "type"), Content |-> Str(obj, "content"),
     ID |-> Str(obj, "id"), TTL |-> Num(obj, "ttl"),
     Proxiable |-> Bool(obj, "proxiable"), Proxied |-> Bool(obj, "proxied"),
     Locked |-> Bool(obj, "locked"),
     ZoneID |-> Str(obj, "zone_id"), ZoneName |-> Str(obj, "zone_name"),
     Created |-> Time(obj, "created_on"), Modified |-> Time(obj, "modified_on"),
     Data |-> IF Has(obj, "data") THEN TextData(Text(obj, "data")) ELSE DataNil]

ZoneShape(obj) ==
    /\ StrOK(obj, "id") /\ StrOK(obj, "name") /\ NumOK(obj, "development_mode")
    /\ StrOK(obj, "original_registrar") /\ StrOK(obj, "original_dnshost")
    /\ ListOK(obj, "original_name_servers")
    /\ TimeOK(obj, "created_on") /\ TimeOK(obj, "modified_on")
    /\ ListOK(obj, "name_servers") /\ StrOK(obj, "status") /\ BoolOK(obj, "paused")
    /\ StrOK(obj, "type") /\ TimeOK(obj, "checked_on")

DecodeZoneSwapped(obj) ==
    [ID |-> Str(obj, "name"), Name |-> Str(obj, "id"),
     DevelopmentMode |-> Num(obj, "development_mode"),
     OriginalRegistrar |-> Str(obj, "original_registrar"),
     OriginalDNSHost |-> Str(obj, "original_dnshost"),
     OriginalNameServers |-> List(obj, "original_name_servers"),
     Created |-> Time(obj, "created_on"), Modified |-> Time(obj, "modified_on"),
     NameServers |-> List(obj, "name_servers"), Status |-> Str(obj, "status"),
     Paused |-> Bool(obj, "paused"), Type |-> Str(obj, "type"),
     Checked |-> Time(obj, "checked_on")]

DecodeZone(obj) ==
    [ID |-> Str(obj, "id"), Name |-> Str(obj, "name"),
     DevelopmentMode |-> Num(obj, "development_mode"),
     OriginalRegistrar |-> Str(obj, "original_registrar"),
     OriginalDNSHost |-> Str(obj, "original_dnshost"),
     OriginalNameServers |-> List(obj, "original_name_servers"),
     Created |-> Time(obj, "created_on"), Modified |-> Time(obj, "modified_on"),
     NameServers |-> List(obj, "name_servers"), Status |-> Str(obj, "status"),
     Paused |-> Bool(obj, "paused"), Type |-> Str(obj, "type"),
     Checked |-> Time(obj, "checked_on")]

\* json.NewDecoder(resp.Body).Decode(&res) for res of type cfZoneResult.
cfZoneResult(body) ==
    IF ~body.valid \/ \E i \in 1..Len(body.result) : ~ZoneShape(body.result[i])
    THEN [Result |-> <<>>, err |-> ErrDecode]
    ELSE [Result |-> [i \in 1..Len(body.result) |-> DecodeZone(body.result[i])],
          err |-> ErrNil]

\* json.NewDecoder(resp.Body).Decode(&res) for res of type cfDNSResult.
cfDNSResult(body) ==
    IF ~body.valid \/ \E i \in 1..Len(body.result) : ~DNSRecordShape(body.result[i])
    THEN [Result |-> <<>>, err |-> ErrDecode]
    ELSE [Result |-> [i \in 1..Len(body.result) |-> DecodeDNSRecord(body.result[i])],
          err |-> ErrNil]

----------------------------------------------------------------------------
(* The client and the requests its operations build *)

NewClient(authEmail, authKey) ==
    [apiBase |-> defaultAPIBase, authEmail |-> authEmail, authKey |-> authKey]

NoReq == [sent |-> FALSE, method |-> "", url |-> <<>>, header |-> {}, body |-> NoBody]

\* http.NewRequest parses the URL and rejects an invalid percent escape.
BadURLParts == {"%zz"}

ValidURL(url) == \A i \in 1..Len(url) : url[i] \notin BadURLParts

doRequestTwice(c, method, url, body) ==
    IF ~ValidURL(<<c.apiBase>> \o url)
    THEN [c |-> c, req |-> NoReq, err |-> ErrURL, calls |-> 0]
    ELSE [c |-> c,
          req |-> [sent |-> TRUE, method |-> method, url |-> <<c.apiBase>> \o url,
                   header |-> {<<"X-Auth-Email", c.authEmail>>, <<"X-Auth-Key", c.authKey>>},
                   body |-> body],
          err |-> ErrNil, calls |-> 2]

doRequestNoKey(c, method, url, body) ==
    IF ~ValidURL(<<c.apiBase>> \o url)
    THEN [c |-> c, req |-> NoReq, err |-> ErrURL, calls |-> 0]
    ELSE [c |-> c,
          req |-> [sent |-> TRUE, method |-> method, url |-> <<c.apiBase>> \o url,
                   header |-> {<<"X-Auth-Email", c.authEmail>>},
                   body |-> body],
          err |-> ErrNil, calls |-> 1]

doRequestClearsKey(c, method, url, body) ==
    IF ~ValidURL(<<c.apiBase>> \o url)
    THEN [c |-> c, req |-> NoReq, err |-> ErrURL, calls |-> 0]
    ELSE [c |-> [c EXCEPT !.authKey = ""],
          req |-> [sent |-> TRUE, method |-> method, url |-> <<c.apiBase>> \o url,
                   header |-> {<<"X-Auth-Email", c.authEmail>>, <<"X-Auth-Key", c.authKey>>},
                   body |-> body],
          err |-> ErrNil, calls |-> 1]

\* doRequest up to the call of http.DefaultClient.Do: the request handed to
\* Do, or the error of http.NewRequest; calls counts the calls of Do.
doRequest(c, method, url, body) ==
    IF ~ValidURL(<<c.apiBase>> \o url)
    THEN [c |-> c, req |-> NoReq, err |-> ErrURL, calls |-> 0]
    ELSE [c |-> c,
          req |-> [sent |-> TRUE, method |-> method, url |-> <<c.apiBase>> \o url,
                   header |-> {<<"X-Auth-Email", c.authEmail>>, <<"X-Auth-Key", c.authKey>>},
                   body |-> body],
          err |-> ErrNil, calls |-> 1]

ListZonesRequest(c) == doRequest(c, "GET", <<"/zones?per_page=1000">>, NoBody)

ListDNSRecordsRequest(c, zoneID) ==
    doRequest(c, "GET", <<"/zones/", zoneID, "/dns_records?per_page=1000">>, NoBody)

CreateDNSRecordRequest(c, zoneID, name, rectype, content) ==
    doRequest(c, "POST", <<"/zones/", zoneID, "/dns_records">>,
              jsonReader(DNSRecord(name, rectype, content)).body)

UpdateDNSRecordRequestSwapped(c, rec) ==
    IF jsonReader(rec).err # ErrNil
    THEN [c |-> c, req |-> NoReq, err |-> jsonReader(rec).err, calls |-> 0]
    ELSE doRequest(c, "PUT", <<"/zones/", rec.ID, "/dns_records/", rec.ZoneID>>,
                   jsonReader(rec).body)

UpdateDNSRecordRequest(c, rec) ==
    IF jsonReader(rec).err # ErrNil
    THEN [c |-> c, req |-> NoReq, err |-> jsonReader(rec).err, calls |-> 0]
    ELSE doRequest(c, "PUT", <<"/zones/", rec.ZoneID, "/dns_records/", rec.ID>>,
                   jsonReader(rec).body)

DeleteDNSRecordRequestPost(c, rec) ==
    doRequest(c, "POST", <<"/zones/", rec.ZoneID, "/dns_records/", rec.ID>>, NoBody)

DeleteDNSRecordRequest(c, rec) ==
    doRequest(c, "DELETE", <<"/zones/", rec.ZoneID, "/dns_records/", rec.ID>>, NoBody)

----------------------------------------------------------------------------
(* What each operation does with the outcome of http.DefaultClient.Do *)

EmptyBody == [valid |-> TRUE, result |-> <<>>]

NoResp == [kind |-> "none", code |-> 0, status |-> "", body |-> EmptyBody]

TransportError == [kind |-> "error", code |-> 0, status |-> "", body |-> EmptyBody]

NoRet == [err |-> ErrNil, zones |-> <<>>, records |-> <<>>]

ListZonesResultChecksStatus(r) ==
    IF r.kind = "error"
    THEN [err |-> ErrTransport, zones |-> <<>>, records |-> <<>>, closed |-> FALSE]
    ELSE IF r.code # 200
    THEN [err |-> r.status, zones |-> <<>>, records |-> <<>>, closed |-> TRUE]
    ELSE IF cfZoneResult(r.body).err # ErrNil
    THEN [err |-> cfZoneResult(r.body).err, zones |-> <<>>, records |-> <<>>, closed |-> TRUE]
    ELSE [err |-> ErrNil, zones |-> cfZoneResult(r.body).Result, records |-> <<>>,
          closed |-> TRUE]

ListZonesResult(r) ==
    IF r.kind = "error"
    THEN [err |-> ErrTransport, zones |-> <<>>, records |-> <<>>, closed |-> FALSE]
    ELSE IF cfZoneResult(r.body).err # ErrNil
    THEN [err |-> cfZoneResult(r.body).err, zones |-> <<>>, records |-> <<>>, closed |-> TRUE]
    ELSE [err |-> ErrNil, zones |-> cfZoneResult(r.body).Result, records |-> <<>>,
          closed |-> TRUE]

ListDNSRecordsResultLeaks(r) ==
    IF r.kind = "error"
    THEN [err |-> ErrTransport, zones |-> <<>>, records |-> <<>>, closed |-> FALSE]
    ELSE IF cfDNSResult(r.body).err # ErrNil
    THEN [err |-> cfDNSResult(r.body).err, zones |-> <<>>, records |-> <<>>, closed |-> FALSE]
    ELSE [err |-> ErrNil, zones |-> <<>>, records |-> cfDNSResult(r.body).Result,
          closed |-> TRUE]

ListDNSRecordsResult(r) ==
    IF r.kind = "error"
    THEN [err |-> ErrTransport, zones |-> <<>>, records |-> <<>>, closed |-> FALSE]
    ELSE IF cfDNSResult(r.body).err # ErrNil
    THEN [err |-> cfDNSResult(r.body).err, zones |-> <<>>, records |-> <<>>, closed |-> TRUE]
    ELSE [err |-> ErrNil, zones |-> <<>>, records |-> cfDNSResult(r.body).Result,
          closed |-> TRUE]

CreateDNSRecordResult(r) ==
    IF r.kind = "error"
    THEN [err |-> ErrTransport, zones |-> <<>>, records |-> <<>>, closed |-> FALSE]
    ELSE IF r.code # 200
    THEN [err |-> r.status, zones |-> <<>>, records |-> <<>>, closed |-> TRUE]
    ELSE [err |-> ErrNil, zones |-> <<>>, records |-> <<>>, closed |-> TRUE]

UpdateDNSRecordResult(r) ==
    IF r.kind = "error"
    THEN [err |-> ErrTransport, zones |-> <<>>, records |-> <<>>, closed |-> FALSE]
    ELSE IF r.code # 200
    THEN [err |-> r.status, zones |-> <<>>, records |-> <<>>, closed |-> TRUE]
    ELSE [err |-> ErrNil, zones |-> <<>>, records |-> <<>>, closed |-> TRUE]

DeleteDNSRecordResultAccepts2xx(r) ==
    IF r.kind = "error"
    THEN [err |-> ErrTransport, zones |-> <<>>, records |-> <<>>, closed |-> FALSE]
    ELSE IF r.code >= 300
    THEN [err |-> r.status, zones |-> <<>>, records |-> <<>>, closed |-> TRUE]
    ELSE [err |-> ErrNil, zones |-> <<>>, records |-> <<>>, closed |-> TRUE]

DeleteDNSRecordResult(r) ==
    IF r.kind = "error"
    THEN [err |-> ErrTransport, zones |-> <<>>, records |-> <<>>, closed |-> FALSE]
    ELSE IF r.code # 200
    THEN [err |-> r.status, zones |-> <<>>, records |-> <<>>, closed |-> TRUE]
    ELSE [err |-> ErrNil, zones |-> <<>>, records |-> <<>>, closed |-> TRUE]

----------------------------------------------------------------------------
(* Inputs: arguments of the callers and responses of the server *)

Rec(id, zoneID, data) ==
    [DNSRecord("test.example.com", "A", "192.168.0.2")
        EXCEPT !.ID = id, !.ZoneID = zoneID, !.Data = data]

ZoneA == <<<<"id", "str", "z1">>, <<"name", "str", "example.com">>>>

ZoneB ==
    <<<<"name", "str", "example.org">>, <<"id", "str", "z2">>,
      <<"development_mode", "num", "120">>, <<"status", "str", "active">>,
      <<"paused", "bool", "true">>, <<"created_on", "str", "2014-01-01T05:20:00Z">>,
      <<"name_servers", "arr", "[\"ns1.example.com\",\"ns2.example.com\"]">>,
      <<"original_name_servers", "arr", "[\"ns1.example.com\"]">>,
      <<"permissions", "arr", "[\"#zone:read\"]">>>>

ZoneBad == <<<<"id", "num", "1">>, <<"name", "str", "example.net">>>>

RecordFull ==
    <<<<"id", "str", "r1">>, <<"zone_id", "str", "z1">>, <<"zone_name", "str", "example.com">>,
      <<"name", "str", "www.example.com">>, <<"type", "str", "SRV">>,
      <<"content", "str", "10 5 5060 sip.example.com">>, <<"ttl", "num", "120">>,
      <<"proxied", "bool", "true">>, <<"created_on", "str", "2014-01-01T05:20:00Z">>,
      <<"data", "obj", "{\"priority\":10}">>>>

RecordBare == <<<<"name", "str", "mail.example.com">>, <<"type", "str", "MX">>>>

RecordBad == <<<<"id", "str", "r3">>, <<"ttl", "str", "auto">>>>

Malformed == [valid |-> FALSE, result |-> <<>>]

BodiesOf(objects, n) == {Malformed} \cup {[valid |-> TRUE, result |-> q] : q \in SeqsUpTo(objects, n)}

Response(st, body) == [kind |-> "response", code |-> st[1], status |-> st[2], body |-> body]

\* One caller, and inputs that reach every branch of every operation.
Sequential ==
    [callers |-> {"c1"},
     zoneIDs |-> {"", "z1", "%zz"},
     names |-> {<<"test.example.com", "A", "192.168.0.2">>, <<"", "", "">>},
     records |-> {Rec("r1", "z1", DataNil), Rec("", "", DataNil), Rec("r1", "z1", DataChan),
                  Rec("r1", "%zz", DataNil), Rec("r2", "z1", DataMap)},
     statuses |-> {<<200, "200 OK">>, <<201, "201 Created">>, <<403, "403 Forbidden">>,
                   <<500, "500 Internal Server Error">>},
     zoneBodies |-> BodiesOf({ZoneA, ZoneB, ZoneBad}, MaxResult),
     recordBodies |-> BodiesOf({RecordFull, RecordBare, RecordBad}, MaxResult),
     anyBodies |-> {Malformed, EmptyBody}]

\* Two callers sharing the clients, with few inputs each.
Concurrent ==
    [callers |-> Callers,
     zoneIDs |-> {"z1"},
     names |-> {<<"test.example.com", "A", "192.168.0.2">>},
     records |-> {Rec("r1", "z1", DataNil)},
     statuses |-> {<<200, "200 OK">>, <<403, "403 Forbidden">>,
                   <<500, "500 Internal Server Error">>},
     zoneBodies |-> {Malformed, [valid |-> TRUE, result |-> <<ZoneA>>]},
     recordBodies |-> {Malformed, [valid |-> TRUE, result |-> <<RecordFull>>]},
     anyBodies |-> {EmptyBody}]

NoCall ==
    [op |-> "none", client |-> "k1", zoneID |-> "", name |-> "", rectype |-> "",
     content |-> "", rec |-> DNSRecord("", "", ""), fromList |-> FALSE]

----------------------------------------------------------------------------
(* State machine *)

InitWith(e) ==
    /\ env = e
    /\ clients = [k \in ClientIds |-> <<>>]
    /\ newArgs = [k \in ClientIds |-> <<>>]
    /\ pc = [c \in Callers |-> "idle"]
    /\ call = [c \in Callers |-> NoCall]
    /\ req = [c \in Callers |-> NoReq]
    /\ resp = [c \in Callers |-> NoResp]
    /\ ret = [c \in Callers |-> NoRet]
    /\ httpCalls = [c \in Callers |-> 0]
    /\ bodyOpen = [c \in Callers |-> FALSE]

Init == InitWith(Sequential)

InitConcurrent == InitWith(Concurrent)

\* A caller enters an operation: the code runs up to the call of Do, where it
\* blocks, or returns early with the error of building the request.
Begin(c, k, args, d) ==
    /\ pc[c] # "waiting"
    /\ clients' = [clients EXCEPT ![k] = <<d.c>>]
    /\ call' = [call EXCEPT ![c] = args]
    /\ req' = [req EXCEPT ![c] = d.req]
    /\ httpCalls' = [httpCalls EXCEPT ![c] = d.calls]
    /\ pc' = [pc EXCEPT ![c] = IF d.req.sent THEN "waiting" ELSE "done"]
    /\ ret' = [ret EXCEPT ![c] = [NoRet EXCEPT !.err = d.err]]
    /\ resp' = [resp EXCEPT ![c] = NoResp]
    /\ bodyOpen' = [bodyOpen EXCEPT ![c] = FALSE]
    /\ UNCHANGED <<env, newArgs>>

\* Do returns r (a response or a transport error) and the operation runs to
\* its return.
End(c, r, out) ==
    /\ pc[c] = "waiting"
    /\ resp' = [resp EXCEPT ![c] = r]
    /\ ret' = [ret EXCEPT ![c] = [err |-> out.err, zones |-> out.zones, records |-> out.records]]
    /\ bodyOpen' = [bodyOpen EXCEPT ![c] = r.kind = "response" /\ ~out.closed]
    /\ pc' = [pc EXCEPT ![c] = "done"]
    /\ UNCHANGED <<env, clients, newArgs, call, req, httpCalls>>

NewClientCall(c, k, cred) ==
    /\ pc[c] # "waiting"
    /\ clients[k] = <<>>
    /\ clients' = [clients EXCEPT ![k] = <<NewClient(cred.authEmail, cred.authKey)>>]
    /\ newArgs' = [newArgs EXCEPT ![k] = <<cred>>]
    /\ call' = [call EXCEPT ![c] = [NoCall EXCEPT !.op = "NewClient", !.client = k]]
    /\ req' = [req EXCEPT ![c] = NoReq]
    /\ resp' = [resp EXCEPT ![c] = NoResp]
    /\ ret' = [ret EXCEPT ![c] = NoRet]
    /\ httpCalls' = [httpCalls EXCEPT ![c] = 0]
    /\ bodyOpen' = [bodyOpen EXCEPT ![c] = FALSE]
    /\ pc' = [pc EXCEPT ![c] = "done"]
    /\ UNCHANGED env

ListZonesCall(c, k) ==
    /\ clients[k] # <<>>
    /\ Begin(c, k, [NoCall EXCEPT !.op = "ListZones", !.client = k],
             ListZonesRequest(clients[k][1]))

ListZonesReturn(c, r) ==
    /\ call[c].op = "ListZones"
    /\ End(c, r, ListZonesResult(r))

ListDNSRecordsCall(c, k, zoneID) ==
    /\ clients[k] # <<>>
    /\ Begin(c, k, [NoCall EXCEPT !.op = "ListDNSRecords", !.client = k, !.zoneID = zoneID],
             ListDNSRecordsRequest(clients[k][1], zoneID))

ListDNSRecordsReturn(c, r) ==
    /\ call[c].op = "ListDNSRecords"
    /\ End(c, r, ListDNSRecordsResult(r))

CreateDNSRecordCall(c, k, zoneID, n) ==
    /\ clients[k] # <<>>
    /\ Begin(c, k,
             [NoCall EXCEPT !.op = "CreateDNSRecord", !.client = k, !.zoneID = zoneID,
                            !.name = n[1], !.rectype = n[2], !.content = n[3]],
             CreateDNSRecordRequest(clients[k][1], zoneID, n[1], n[2], n[3]))

CreateDNSRecordReturn(c, r) ==
    /\ call[c].op = "CreateDNSRecord"
    /\ End(c, r, CreateDNSRecordResult(r))

\* fromList: rec is an element of the result the caller's last call,
\* ListDNSRecords, returned.
UpdateDNSRecordCall(c, k, rec, fromList) ==
    /\ clients[k] # <<>>
    /\ Begin(c, k,
             [NoCall EXCEPT !.op = "UpdateDNSRecord", !.client = k, !.rec = rec,
                            !.fromList = fromList],
             UpdateDNSRecordRequest(clients[k][1], rec))

UpdateDNSRecordReturn(c, r) ==
    /\ call[c].op = "UpdateDNSRecord"
    /\ End(c, r, UpdateDNSRecordResult(r))

DeleteDNSRecordCall(c, k, rec, fromList) ==
    /\ clients[k] # <<>>
    /\ Begin(c, k,
             [NoCall EXCEPT !.op = "DeleteDNSRecord", !.client = k, !.rec = rec,
                            !.fromList = fromList],
             DeleteDNSRecordRequest(clients[k][1], rec))

DeleteDNSRecordReturn(c, r) ==
    /\ call[c].op = "DeleteDNSRecord"
    /\ End(c, r, DeleteDNSRecordResult(r))

Responses(bodies) ==
    {TransportError} \cup {Response(st, b) : st \in env.statuses, b \in bodies}

Next ==
    \E c \in env.callers :
        \/ \E k \in ClientIds, cred \in Credentials : NewClientCall(c, k, cred)
        \/ \E k \in ClientIds : ListZonesCall(c, k)
        \/ \E r \in Responses(env.zoneBodies) : ListZonesReturn(c, r)
        \/ \E k \in ClientIds, z \in env.zoneIDs : ListDNSRecordsCall(c, k, z)
        \/ \E r \in Responses(env.recordBodies) : ListDNSRecordsReturn(c, r)
        \/ \E k \in ClientIds, z \in env.zoneIDs, n \in env.names :
              CreateDNSRecordCall(c, k, z, n)
        \/ \E r \in Responses(env.anyBodies) : CreateDNSRecordReturn(c, r)
        \/ \E k \in ClientIds, rec \in env.records : UpdateDNSRecordCall(c, k, rec, FALSE)
        \/ \E k \in ClientIds, i \in 1..Len(ret[c].records) :
              UpdateDNSRecordCall(c, k, ret[c].records[i], TRUE)
        \/ \E r \in Responses(env.anyBodies) : UpdateDNSRecordReturn(c, r)
        \/ \E k \in ClientIds, rec \in env.records : DeleteDNSRecordCall(c, k, rec, FALSE)
        \/ \E k \in ClientIds, i \in 1..Len(ret[c].records) :
              DeleteDNSRecordCall(c, k, ret[c].records[i], TRUE)
        \/ \E r \in Responses(env.anyBodies) : DeleteDNSRecordReturn(c, r)

Spec == Init /\ [][Next]_vars

SpecConcurrent == InitConcurrent /\ [][Next]_vars

----------------------------------------------------------------------------
(* Properties *)

Mutating == {"CreateDNSRecord", "UpdateDNSRecord", "DeleteDNSRecord"}

Listing == {"ListZones", "ListDNSRecords"}

Returned(c) == c \in env.callers /\ pc[c] = "done"

\* C1: a create, update or delete that has returned returned no error exactly
\* when Do delivered a response with status code 200, and for every other
\* status code its error message is the response's status text.
C1_OnlyStatus200Succeeds ==
    \A c \in Callers :
        Returned(c) /\ call[c].op \in Mutating =>
            /\ ret[c].err = ErrNil <=> (resp[c].kind = "response" /\ resp[c].code = 200)
            /\ resp[c].kind = "response" /\ resp[c].code # 200 => ret[c].err = resp[c].status

C1_Witness ==
    \E c \in Callers :
        /\ Returned(c) /\ call[c].op = "DeleteDNSRecord"
        /\ resp[c].kind = "response" /\ resp[c].code = 201 /\ ret[c].err = "201 Created"

\* The request of the call could not be built: json.Marshal of the record of
\* UpdateDNSRecord fails, or http.NewRequest rejects the URL.
NotBuilt(cl) ==
    CASE cl.op = "ListZones" -> FALSE
      [] cl.op \in {"ListDNSRecords", "CreateDNSRecord"} -> cl.zoneID \in BadURLParts
      [] cl.op = "UpdateDNSRecord" ->
            cl.rec.Data = DataChan \/ cl.rec.ZoneID \in BadURLParts \/ cl.rec.ID \in BadURLParts
      [] cl.op = "DeleteDNSRecord" ->
            cl.rec.ZoneID \in BadURLParts \/ cl.rec.ID \in BadURLParts
      [] OTHER -> TRUE

\* C2 (as stated): every operation that has returned made exactly one call of
\* Do, whatever its arguments and outcome, and NewClient made none.
C2_ExactlyOneCall ==
    \A c \in Callers :
        Returned(c) => httpCalls[c] = IF call[c].op = "NewClient" THEN 0 ELSE 1

\* C2 (amended): no operation ever makes more than one call of Do; one that has
\* returned made exactly one, unless its request could not be built, and then
\* none; NewClient made none.
C2_OneCallUnlessNotBuilt ==
    \A c \in Callers :
        /\ httpCalls[c] <= 1
        /\ Returned(c) =>
              httpCalls[c] = IF call[c].op = "NewClient" \/ NotBuilt(call[c]) THEN 0 ELSE 1

C2_Witness ==
    \E c \in Callers :
        /\ Returned(c) /\ call[c].op = "UpdateDNSRecord" /\ call[c].rec.Data = DataChan
        /\ ret[c].err = ErrMarshal /\ httpCalls[c] = 0

\* C3: no operation has returned with the body of a received response open.
C3_BodyClosedOnReturn ==
    \A c \in Callers : Returned(c) /\ resp[c].kind = "response" => ~bodyOpen[c]

C3_Witness ==
    \E c \in Callers :
        /\ Returned(c) /\ call[c].op = "ListDNSRecords"
        /\ resp[c].kind = "response" /\ resp[c].code = 500 /\ ret[c].err = ErrDecode
        /\ ~bodyOpen[c]

Endpoint(cl) ==
    CASE cl.op = "ListZones" ->
            [method |-> "GET", url |-> <<defaultAPIBase, "/zones?per_page=1000">>]
      [] cl.op = "ListDNSRecords" ->
            [method |-> "GET",
             url |-> <<defaultAPIBase, "/zones/", cl.zoneID, "/dns_records?per_page=1000">>]
      [] cl.op = "CreateDNSRecord" ->
            [method |-> "POST", url |-> <<defaultAPIBase, "/zones/", cl.zoneID, "/dns_records">>]
      [] cl.op = "UpdateDNSRecord" ->
            [method |-> "PUT",
             url |-> <<defaultAPIBase, "/zones/", cl.rec.ZoneID, "/dns_records/", cl.rec.ID>>]
      [] cl.op = "DeleteDNSRecord" ->
            [method |-> "DELETE",
             url |-> <<defaultAPIBase, "/zones/", cl.rec.ZoneID, "/dns_records/", cl.rec.ID>>]
      [] OTHER -> [method |-> "", url |-> <<>>]

\* C4: the request an operation hands to Do has the method and the URL of the
\* endpoint table, and a GET or DELETE request has no body.
C4_EndpointTable ==
    \A c \in Callers :
        req[c].sent =>
            /\ req[c].method = Endpoint(call[c]).method
            /\ req[c].url = Endpoint(call[c]).url
            /\ req[c].method \in {"GET", "DELETE"} => req[c].body.nil

C4_Witness ==
    \E c \in Callers :
        /\ req[c].sent /\ call[c].op = "DeleteDNSRecord"
        /\ req[c].method = "DELETE" /\ req[c].body.nil
        /\ req[c].url = <<defaultAPIBase, "/zones/", "z1", "/dns_records/", "r1">>

\* C5: every request handed to Do carries exactly the two authentication
\* headers, with the values NewClient was given for the client of the call.
C5_AuthHeaders ==
    \A c \in Callers :
        req[c].sent =>
            req[c].header = {<<"X-Auth-Email", newArgs[call[c].client][1].authEmail>>,
                             <<"X-Auth-Key", newArgs[call[c].client][1].authKey>>}

C5_Witness ==
    \E c \in Callers :
        /\ req[c].sent /\ call[c].client = "k2"
        /\ newArgs["k1"] # <<>> /\ newArgs["k2"] # <<>> /\ newArgs["k1"] # newArgs["k2"]
        /\ <<"X-Auth-Key", newArgs["k2"][1].authKey>> \in req[c].header

\* C6: the body of the request of CreateDNSRecord is the JSON object with the
\* members name, type, content, proxiable, proxied and locked, and no other.
C6_CreateBody ==
    \A c \in Callers :
        req[c].sent /\ call[c].op = "CreateDNSRecord" =>
            req[c].body.json =
                <<<<"name", "str", call[c].name>>, <<"type", "str", call[c].rectype>>,
                  <<"content", "str", call[c].content>>, <<"proxiable", "bool", "false">>,
                  <<"proxied", "bool", "false">>, <<"locked", "bool", "false">>>>

Members(json) == {json[i] : i \in 1..Len(json)}

ListedUpdate(c) == req[c].sent /\ call[c].op = "UpdateDNSRecord" /\ call[c].fromList

\* C7 (as stated): the body of the PUT request for a record that ListDNSRecords
\* returned has an id member and a zone_id member, equal to the record and zone
\* identifiers in the path of the request.
C7_RoundTrip ==
    \A c \in Callers :
        ListedUpdate(c) =>
            /\ <<"id", "str", req[c].url[5]>> \in Members(req[c].body.json)
            /\ <<"zone_id", "str", req[c].url[3]>> \in Members(req[c].body.json)

\* C7 (amended): in that body the id member is the record identifier of the
\* path when that identifier is not empty and is absent when it is empty, and
\* likewise the zone_id member and the zone identifier of the path.
C7_RoundTripNonEmpty ==
    \A c \in Callers :
        ListedUpdate(c) =>
            /\ req[c].url[5] # "" => <<"id", "str", req[c].url[5]>> \in Members(req[c].body.json)
            /\ req[c].url[5] = "" => ~Has(req[c].body.json, "id")
            /\ req[c].url[3] # "" =>
                  <<"zone_id", "str", req[c].url[3]>> \in Members(req[c].body.json)
            /\ req[c].url[3] = "" => ~Has(req[c].body.json, "zone_id")
            /\ \A m \in Members(req[c].body.json) :
                  /\ m[1] = "id" => m[3] = req[c].url[5]
                  /\ m[1] = "zone_id" => m[3] = req[c].url[3]

C7_Witness ==
    \E c \in Callers :
        /\ ListedUpdate(c) /\ req[c].url[5] = "r1" /\ req[c].url[3] = "z1"
        /\ <<"id", "str", "r1">> \in Members(req[c].body.json)

Decodable(op, body) ==
    /\ body.valid
    /\ \A i \in 1..Len(body.result) :
          IF op = "ListZones" THEN ZoneShape(body.result[i]) ELSE DNSRecordShape(body.result[i])

ZoneMatches(z, obj) ==
    /\ z.ID = (IF Has(obj, "id") THEN Text(obj, "id") ELSE "")
    /\ z.Name = (IF Has(obj, "name") THEN Text(obj, "name") ELSE "")
    /\ NumText(z.DevelopmentMode) =
          (IF Has(obj, "development_mode") THEN Text(obj, "development_mode") ELSE "0")
    /\ z.OriginalRegistrar =
          (IF Has(obj, "original_registrar") THEN Text(obj, "original_registrar") ELSE "")
    /\ z.OriginalDNSHost =
          (IF Has(obj, "original_dnshost") THEN Text(obj, "original_dnshost") ELSE "")
    /\ ListText(z.OriginalNameServers) =
          (IF Has(obj, "original_name_servers") THEN Text(obj, "original_name_servers")
           ELSE "[]")
    /\ FormatTime(z.Created) =
          (IF Has(obj, "created_on") THEN Text(obj, "created_on") ELSE "0001-01-01T00:00:00Z")
    /\ FormatTime(z.Modified) =
          (IF Has(obj, "modified_on") THEN Text(obj, "modified_on") ELSE "0001-01-01T00:00:00Z")
    /\ ListText(z.NameServers) =
          (IF Has(obj, "name_servers") THEN Text(obj, "name_servers") ELSE "[]")
    /\ z.Status = (IF Has(obj, "status") THEN Text(obj, "status") ELSE "")
    /\ BoolText(z.Paused) = (IF Has(obj, "paused") THEN Text(obj, "paused") ELSE "false")
    /\ z.Type = (IF Has(obj, "type") THEN Text(obj, "type") ELSE "")
    /\ FormatTime(z.Checked) =
          (IF Has(obj, "checked_on") THEN Text(obj, "checked_on") ELSE "0001-01-01T00:00:00Z")

ValidZoneList(r) ==
    /\ r.kind = "response" /\ r.body.valid
    /\ \A i \in 1..Len(r.body.result) : ZoneShape(r.body.result[i])

\* C9: for a valid zone list response ListZones returned no error and one Zone
\* for each element of the result array, in the order of the array; for an
\* empty array, the empty sequence.
C9_ZonesMatchResult ==
    \A c \in Callers :
        Returned(c) /\ call[c].op = "ListZones" /\ ValidZoneList(resp[c]) =>
            /\ ret[c].err = ErrNil
            /\ Len(ret[c].zones) = Len(resp[c].body.result)
            /\ \A i \in 1..Len(ret[c].zones) : ZoneMatches(ret[c].zones[i], resp[c].body.result[i])

C9_Witness ==
    \E c \in Callers :
        /\ Returned(c) /\ call[c].op = "ListZones" /\ ValidZoneList(resp[c])
        /\ Len(ret[c].zones) = 2
        /\ ret[c].zones[1].ID = "z2" /\ ret[c].zones[1].Paused
        /\ ret[c].zones[2].ID = "z1" /\ ret[c].zones[2].Name = "example.com"

\* C10: every client keeps the base URL and the credentials NewClient gave it,
\* and two calls with the same arguments build the same request and, given the
\* same response, return the same outcome, whatever else is in flight.
C10_ClientImmutable ==
    /\ \A k \in ClientIds :
          clients[k] # <<>> =>
              clients[k] = <<[apiBase |-> defaultAPIBase,
                              authEmail |-> newArgs[k][1].authEmail,
                              authKey |-> newArgs[k][1].authKey]>>
    /\ \A c, d \in Callers :
          call[c] = call[d] =>
              /\ req[c] = req[d]
              /\ Returned(c) /\ Returned(d) /\ resp[c] = resp[d] => ret[c] = ret[d]

C10_Witness ==
    /\ pc["c1"] = "done" /\ resp["c1"].kind = "response" /\ call["c1"].op = "UpdateDNSRecord"
    /\ pc["c2"] = "waiting" /\ call["c2"].op = "ListZones"
    /\ call["c1"].client = call["c2"].client
    /\ clients["k1"] # <<>> /\ clients["k2"] # <<>>

====
